---- MODULE Spec2Model ----
(***************************************************************************)
(* A model of the Slice container of src/slice.c: a growable, type-erased  *)
(* array over one heap buffer.  The heap is modelled explicitly (blocks    *)
(* with a byte size and the elements written into them), so that           *)
(* ownership, aliasing, double frees and out-of-bounds writes are things   *)
(* the model checker can observe.  Every library call is one atomic step;  *)
(* which allocation of a call fails is an input of the step.               *)
(***************************************************************************)
EXTENDS Integers, Sequences, FiniteSets, TLC

(* ------------------------------ bounds -------------------------------- *)

\* Element values stored in slices (opaque byte blocks in the code).
Vals == {1, 2}

\* The caller's Slice* variables.  "s" and "t" each hold NULL or one slice.
Slots == {"s", "t"}

\* Number of heap blocks the model's heap can hold at once.
MaxBufs == 4

\* realloc reports out-of-memory once a slice would grow beyond this many
\* elements (finite memory).
MaxCap == 6

\* Longest raw array handed to SliceAppendArray.
MaxArr == 2

\* Longest slice the calls that read a second slice are given to read.
MaxSrcLen == 3

\* Largest stride handed to SliceSlice (in either direction).
MaxStep == 2

\* The allocation of a call that is made to fail ranges over 0..MaxFail
\* (0: none fails).
MaxFail == 3

\* Element sizes and initial capacities handed to NewSlice.
ElSizes == {1, 4}
Caps == {-1, 0, 1, 3}

\* Element sizes at which the growth request of SliceAppend exceeds 2^32.
WideElSizes == {1, 46341}

\* The callbacks handed to SliceMap and SliceFilter.
MapFns == {"same", "other"}
Preds == {"all", "none", "one"}

NULL == "NULL"
BufIds == 1 .. MaxBufs

VARIABLES
    heap,       \* heap[b]: the block with address b
    slice,      \* slice[x]: the Slice struct the caller's variable x points to
    fault,      \* the first memory-safety violation of the run, or "none"
    structLeak, \* a Slice struct was allocated and lost
    last        \* the last call: its arguments, result and the state before it

vars == <<heap, slice, fault, structLeak, last>>

(* ------------------------------- heap --------------------------------- *)

\* A block that is not allocated.
NoBuf == [st |-> "free", size |-> 0, data |-> <<>>]

\* The caller's variable holds NULL.
NoSlice == [st |-> "none", head |-> 0, len |-> 0, cap |-> 0, elSize |-> 0]

NullPtr == [kind |-> "null", buf |-> 0, off |-> 0]

\* A pointer to caller-owned memory that holds the element value v.
Lit(v) == [kind |-> "lit", buf |-> 0, off |-> v]

\* The world a call runs in: the heap and the slices, the number of
\* allocations the call has made (n), the appends it has performed (cnt),
\* whether one of its allocations failed, and the last pointer (p) and
\* Slice* (ret) returned.
World ==
    [heap |-> heap, slice |-> slice, fault |-> fault, leak |-> structLeak,
     n |-> 0, cnt |-> 0, failed |-> FALSE, p |-> 0, ret |-> NULL]

Min(S) == CHOOSE m \in S : \A k \in S : m <= k

\* Addresses malloc may hand out: not allocated, and not still referenced by
\* a slice (a dangling head keeps its address out of circulation, so that a
\* stale pointer is never mistaken for a valid one).
FreeBufs(w) ==
    {b \in BufIds :
        /\ w.heap[b].st # "live"
        /\ \A x \in Slots : ~(w.slice[x].st = "live" /\ w.slice[x].head = b)}

FreshBuf(w) == IF FreeBufs(w) = {} THEN 0 ELSE Min(FreeBufs(w))

\* malloc(size) / calloc(n, size): fails when it is the allocation chosen to
\* fail, or when the heap is exhausted.
Malloc(w, size, fa) ==
    LET b == FreshBuf(w)
        fails == (w.n + 1 = fa) \/ b = 0
    IN  IF fails
        THEN [w EXCEPT !.n = @ + 1, !.p = 0, !.failed = TRUE]
        ELSE [w EXCEPT !.n = @ + 1, !.p = b,
                       !.heap[b] = [st |-> "live", size |-> size, data |-> <<>>]]

\* free(b): releasing a block that is not allocated is a double free.
Free(w, b) ==
    IF b = 0 THEN w
    ELSE IF w.heap[b].st = "live"
    THEN [w EXCEPT !.heap[b] = NoBuf]
    ELSE [w EXCEPT !.fault = IF @ = "none" THEN "double_free" ELSE @]

\* realloc(b, size): on failure the old block is untouched; on success the
\* block keeps its address (mv = FALSE) or moves to a fresh one, the old
\* address being released.  oom: the request exceeds the memory there is.
Realloc(w, b, size, fa, oom, mv) ==
    IF w.heap[b].st # "live"
    THEN [w EXCEPT !.fault = "use_after_free", !.p = 0]
    ELSE LET nb == FreshBuf(w)
             fails == (w.n + 1 = fa) \/ oom \/ (mv /\ nb = 0)
         IN  IF fails
             THEN [w EXCEPT !.n = @ + 1, !.p = 0, !.failed = TRUE]
             ELSE IF mv
             THEN [w EXCEPT !.n = @ + 1, !.p = nb,
                            !.heap[nb] = [st |-> "live", size |-> size,
                                          data |-> w.heap[b].data],
                            !.heap[b] = NoBuf]
             ELSE [w EXCEPT !.n = @ + 1, !.p = b, !.heap[b].size = size]

(* ------------------- 32-bit unsigned arithmetic ----------------------- *)

\* An unsigned int as two 16-bit halves.
U32(n) == [hi |-> (n \div 65536) % 65536, lo |-> n % 65536]

AddU32(x, y) ==
    LET lo == x.lo + y.lo
    IN  [hi |-> (x.hi + y.hi + lo \div 65536) % 65536, lo |-> lo % 65536]

RECURSIVE MulU32(_, _)
\* x * n modulo 2^32, by doubling.
MulU32(x, n) ==
    IF n = 0 THEN U32(0)
    ELSE LET h == MulU32(AddU32(x, x), n \div 2)
         IN  IF n % 2 = 1 THEN AddU32(h, x) ELSE h

\* The size SliceAppend asks realloc for: (cap + elSize) * elSize * 2,
\* evaluated in unsigned int.
GrowBytes(cap, elSize) ==
    MulU32(MulU32(AddU32(U32(cap), U32(elSize)), elSize), 2)

\* Mutant: the capacity is left as it was after the buffer has grown.
GrowCapStale(cap) == cap

\* The capacity SliceAppend records after growing.
GrowCap(cap) == (cap + 1) * 2

\* A request of 2 GiB or more is beyond the memory the model has.
TooBig(u) == u.hi >= 32768

Bytes(u) == u.hi * 65536 + u.lo

(* ------------------------- the library calls -------------------------- *)

NewSlice(w, x, elSize, cap, fa) ==
    LET sFails == (w.n + 1 = fa)
        w1 == [w EXCEPT !.n = @ + 1, !.failed = @ \/ sFails]
    IN  IF cap < 0 \/ sFails
        THEN [w1 EXCEPT !.ret = NULL, !.leak = @ \/ ~sFails]
        ELSE LET w2 == Malloc(w1, cap * elSize, fa)
             IN  IF w2.p = 0
                 THEN [w2 EXCEPT !.ret = NULL]
                 ELSE [w2 EXCEPT !.ret = x,
                                 !.slice[x] = [st |-> "live", head |-> w2.p,
                                               len |-> 0, cap |-> cap,
                                               elSize |-> elSize]]

DeleteSlice(w, x) ==
    [Free(w, w.slice[x].head) EXCEPT !.slice[x] = NoSlice]

\* Mutant: the upper bound check admits i = len.
SliceGetInclusive(s, i) ==
    IF i >= 0
    THEN IF i > s.len THEN NullPtr
         ELSE [kind |-> "heap", buf |-> s.head, off |-> i * s.elSize]
    ELSE IF s.len + i < 0 THEN NullPtr
         ELSE [kind |-> "heap", buf |-> s.head, off |-> (s.len + i) * s.elSize]

\* The element pointer SliceGet returns for the Slice struct s, or NullPtr.
SliceGet(s, i) ==
    IF i >= 0
    THEN IF i >= s.len THEN NullPtr
         ELSE [kind |-> "heap", buf |-> s.head, off |-> i * s.elSize]
    ELSE IF s.len + i < 0 THEN NullPtr
         ELSE [kind |-> "heap", buf |-> s.head, off |-> (s.len + i) * s.elSize]

\* A read through p touches memory that is not allocated.
BadRead(w, p) ==
    \/ p.kind = "null"
    \/ p.kind = "heap" /\ w.heap[p.buf].st # "live"

\* The element of elSize bytes that p points to.
Load(w, p, elSize) ==
    IF p.kind = "lit" THEN p.off
    ELSE IF p.kind = "heap" /\ p.off \div elSize < Len(w.heap[p.buf].data)
    THEN w.heap[p.buf].data[p.off \div elSize + 1]
    ELSE 0

\* Mutant: the element is copied to the head of the buffer, not to slot k.
WriteAtHead(data, k, v) ==
    [j \in 1 .. (IF k + 1 > Len(data) THEN k + 1 ELSE Len(data)) |->
        IF j = 1 THEN v ELSE IF j <= Len(data) THEN data[j] ELSE 0]

\* The block's elements after element k is overwritten with v.
WriteAt(data, k, v) ==
    [j \in 1 .. (IF k + 1 > Len(data) THEN k + 1 ELSE Len(data)) |->
        IF j = k + 1 THEN v ELSE IF j <= Len(data) THEN data[j] ELSE 0]

SliceAppend(w, x, dat, fa, mv) ==
    IF w.fault # "none" THEN w
    ELSE IF x = NULL THEN [w EXCEPT !.fault = "null_deref"]
    ELSE
    LET s == w.slice[x]
        grow == s.len = s.cap
        req == GrowBytes(s.cap, s.elSize)
        w1 == IF grow
              THEN Realloc(w, s.head, Bytes(req), fa,
                           TooBig(req) \/ GrowCap(s.cap) > MaxCap, mv)
              ELSE w
    IN  IF w1.fault # "none" THEN w1
        ELSE IF grow /\ w1.p = 0 THEN [w1 EXCEPT !.ret = NULL]
        ELSE
        LET s1 == IF grow THEN [s EXCEPT !.head = w1.p, !.cap = GrowCap(s.cap)]
                  ELSE s
            b == s1.head
            bad == IF w1.heap[b].st # "live" \/ BadRead(w1, dat)
                   THEN "use_after_free"
                   ELSE IF (s1.len + 1) * s1.elSize > w1.heap[b].size
                   THEN "heap_overflow"
                   ELSE "none"
            v == Load(w1, dat, s1.elSize)
        IN  [w1 EXCEPT !.slice[x] = [s1 EXCEPT !.len = @ + 1],
                       !.heap[b].data = WriteAt(@, s1.len, v),
                       !.fault = bad,
                       !.cnt = @ + 1,
                       !.ret = x]

RECURSIVE AppendArrayFrom(_, _, _, _, _, _)
AppendArrayFrom(w, x, a, i, fa, mv) ==
    IF i >= Len(a) THEN [w EXCEPT !.ret = x]
    ELSE LET w1 == SliceAppend(w, x, Lit(a[i + 1]), fa, mv)
         IN  IF w1.fault # "none" \/ w1.ret = NULL THEN w1
             ELSE AppendArrayFrom(w1, x, a, i + 1, fa, mv)

SliceAppendArray(w, x, a, fa, mv) == AppendArrayFrom(w, x, a, 0, fa, mv)

SliceEmpty(w, x, fa) ==
    LET w1 == Free(w, w.slice[x].head)
        w2 == Malloc(w1, 0, fa)
    IN  IF w2.p = 0
        THEN [w2 EXCEPT !.ret = NULL]
        ELSE [w2 EXCEPT !.ret = x,
                        !.slice[x] = [@ EXCEPT !.head = w2.p, !.len = 0, !.cap = 0]]


RECURSIVE ExtendFrom(_, _, _, _, _, _)
\* The loop of SliceExtend from index i; s2->len is read again on every turn.
ExtendFrom(w, x, y, i, fa, mv) ==
    IF i >= w.slice[y].len THEN [w EXCEPT !.ret = x]
    ELSE LET w1 == SliceAppend(w, x, SliceGet(w.slice[y], i), fa, mv)
         IN  IF w1.fault # "none" \/ w1.ret = NULL THEN w1
             ELSE ExtendFrom(w1, x, y, i + 1, fa, mv)

\* Mutant: the loop starts at the second element of s2.
SliceExtendFromOne(w, x, y, fa, mv) == ExtendFrom(w, x, y, 1, fa, mv)

SliceExtend(w, x, y, fa, mv) == ExtendFrom(w, x, y, 0, fa, mv)

RECURSIVE CopyFrom(_, _, _, _, _, _, _, _, _)
\* The copy loops of SliceSlice from index i: ascending from i1 while below
\* i2 (step > 0), or descending from i2 - 1 while at least i1 (step < 0).
CopyFrom(w, x, d, i, i1, i2, step, fa, mv) ==
    IF ~(IF step > 0 THEN i < i2 ELSE i >= i1) THEN [w EXCEPT !.ret = d]
    ELSE LET dat == SliceGet(w.slice[x], i)
         IN  IF dat = NullPtr
             THEN [DeleteSlice(w, d) EXCEPT !.ret = NULL]
             ELSE LET w1 == SliceAppend(w, d, dat, fa, mv)
                  IN  IF w1.fault # "none" THEN w1
                      ELSE IF w1.ret = NULL
                      THEN [DeleteSlice(w1, d) EXCEPT !.ret = NULL]
                      ELSE CopyFrom(w1, x, d, i + step, i1, i2, step, fa, mv)

\* SliceSlice once its arguments are checked and normalised to i1 and i2:
\* the result is created with room for i2 - i1 elements and filled.
SliceCopy(w, x, d, i1, i2, step, fa, mv) ==
    IF i1 >= i2 THEN [w EXCEPT !.ret = NULL]
    ELSE LET w1 == NewSlice(w, d, w.slice[x].elSize, i2 - i1, fa)
         IN  IF w1.ret = NULL THEN w1
             ELSE CopyFrom(w1, x, d, IF step > 0 THEN i1 ELSE i2 - 1,
                           i1, i2, step, fa, mv)

\* Mutant: a negative end is resolved like a negative start, without the + 1.
SliceSliceEndLikeStart(w, x, d, i1, i2, step, fa, mv) ==
    LET s == w.slice[x]
    IN  IF i1 >= s.len \/ i1 < -s.len \/ i2 > s.len \/ i2 < -s.len \/ step = 0
        THEN [w EXCEPT !.ret = NULL]
        ELSE SliceCopy(w, x, d,
                       IF i1 < 0 THEN s.len + i1 ELSE i1,
                       IF i2 < 0 THEN s.len + i2 ELSE i2,
                       step, fa, mv)

\* Mutant: asked for the whole slice, the call hands out a second Slice struct
\* over the same buffer.
SliceSliceShared(w, x, d, i1, i2, step, fa, mv) ==
    LET s == w.slice[x]
    IN  IF i1 >= s.len \/ i1 < -s.len \/ i2 > s.len \/ i2 < -s.len \/ step = 0
        THEN [w EXCEPT !.ret = NULL]
        ELSE IF i1 = 0 /\ i2 = s.len /\ step = 1
        THEN [w EXCEPT !.ret = d, !.slice[d] = s]
        ELSE SliceCopy(w, x, d,
                       IF i1 < 0 THEN s.len + i1 ELSE i1,
                       IF i2 < 0 THEN s.len + i2 + 1 ELSE i2,
                       step, fa, mv)

\* SliceSlice(s, i1, i2, step); d is the caller's variable that receives the
\* result.
SliceSlice(w, x, d, i1, i2, step, fa, mv) ==
    LET s == w.slice[x]
    IN  IF i1 >= s.len \/ i1 < -s.len \/ i2 > s.len \/ i2 < -s.len \/ step = 0
        THEN [w EXCEPT !.ret = NULL]
        ELSE SliceCopy(w, x, d,
                       IF i1 < 0 THEN s.len + i1 ELSE i1,
                       IF i2 < 0 THEN s.len + i2 + 1 ELSE i2,
                       step, fa, mv)

\* The callbacks: a map function returns a pointer to its result, a filter
\* predicate an int.
ApplyFn(f, v) == IF f = "same" THEN v ELSE 3 - v
ApplyPred(p, v) == IF p = "all" THEN TRUE ELSE IF p = "none" THEN FALSE ELSE v = 1

RECURSIVE MapFrom(_, _, _, _, _, _, _)
\* The loop of SliceMap from index i; r is the result slice (ret), NULL when
\* NewSlice failed.  A failed append returns without releasing r.
MapFrom(w, x, r, f, i, fa, mv) ==
    IF i >= w.slice[x].len THEN [w EXCEPT !.ret = r]
    ELSE LET dat == SliceGet(w.slice[x], i)
         IN  IF BadRead(w, dat) THEN [w EXCEPT !.fault = "use_after_free"]
             ELSE
             LET w1 == SliceAppend(w, r, Lit(ApplyFn(f, Load(w, dat, w.slice[x].elSize))),
                                   fa, mv)
             IN  IF w1.fault # "none" THEN w1
                 ELSE IF w1.ret = NULL THEN [w1 EXCEPT !.slice[r] = NoSlice]
                 ELSE MapFrom(w1, x, r, f, i + 1, fa, mv)

SliceMap(w, x, d, elSize, f, fa, mv) ==
    LET w1 == NewSlice(w, d, elSize, w.slice[x].len, fa)
    IN  MapFrom(w1, x, w1.ret, f, 0, fa, mv)

RECURSIVE FilterFrom(_, _, _, _, _, _, _)
\* The loop of SliceFilter from index i; r is the result slice (ret), NULL
\* when NewSlice failed.
FilterFrom(w, x, r, p, i, fa, mv) ==
    IF i >= w.slice[x].len THEN [w EXCEPT !.ret = r]
    ELSE LET dat == SliceGet(w.slice[x], i)
         IN  IF BadRead(w, dat) THEN [w EXCEPT !.fault = "use_after_free"]
             ELSE IF ~ApplyPred(p, Load(w, dat, w.slice[x].elSize))
             THEN FilterFrom(w, x, r, p, i + 1, fa, mv)
             ELSE LET w1 == SliceAppend(w, r, dat, fa, mv)
                  IN  IF w1.fault # "none" THEN w1
                      ELSE IF w1.ret = NULL
                      THEN [DeleteSlice(w1, r) EXCEPT !.ret = NULL]
                      ELSE FilterFrom(w1, x, r, p, i + 1, fa, mv)

SliceFilter(w, x, d, p, fa, mv) ==
    LET w1 == NewSlice(w, d, w.slice[x].elSize, 0, fa)
    IN  FilterFrom(w1, x, w1.ret, p, 0, fa, mv)

(* ------------------------------ actions ------------------------------- *)

\* The elements of the slice in x, read through SliceGet.
Contents(w, x) ==
    [i \in 1 .. w.slice[x].len |->
        Load(w, SliceGet(w.slice[x], i - 1), w.slice[x].elSize)]

\* The record of a call.  keep: the caller's variables whose elements before
\* the call are remembered, for the calls whose effect is stated against them.
Call(op, x, y, args, keep, w) ==
    [op |-> op, x |-> x, y |-> y, args |-> args,
     ret |-> w.ret, failed |-> w.failed, cnt |-> w.cnt,
     pre |-> [z \in Slots |-> IF z \in keep THEN Contents(World, z) ELSE <<>>]]

Commit(w, rec) ==
    /\ heap' = w.heap
    /\ slice' = w.slice
    /\ fault' = w.fault
    /\ structLeak' = w.leak
    /\ last' = rec

Live(x) == slice[x].st = "live"

CallNewSlice(x, elSize, cap, fa) ==
    /\ fault = "none"
    /\ ~Live(x)
    /\ LET w == NewSlice(World, x, elSize, cap, fa)
       IN  Commit(w, Call("NewSlice", x, NULL, <<>>, {}, w))

CallDeleteSlice(x) ==
    /\ fault = "none"
    /\ Live(x)
    /\ LET w == DeleteSlice(World, x)
       IN  Commit(w, Call("DeleteSlice", x, NULL, <<>>, {}, w))

CallSliceAppend(x, v, fa, mv) ==
    /\ fault = "none"
    /\ Live(x)
    /\ LET w == SliceAppend(World, x, Lit(v), fa, mv)
       IN  Commit(w, Call("SliceAppend", x, NULL, <<v>>, Slots, w))

CallSliceAppendArray(x, a, fa, mv) ==
    /\ fault = "none"
    /\ Live(x)
    /\ LET w == SliceAppendArray(World, x, a, fa, mv)
       IN  Commit(w, Call("SliceAppendArray", x, NULL, <<>>, {}, w))

CallSliceEmpty(x, fa) ==
    /\ fault = "none"
    /\ Live(x)
    /\ LET w == SliceEmpty(World, x, fa)
       IN  Commit(w, Call("SliceEmpty", x, NULL, <<>>, Slots \ {x}, w))

CallSliceExtend(x, y, fa, mv) ==
    /\ fault = "none"
    /\ Live(x)
    /\ Live(y)
    /\ LET w == SliceExtend(World, x, y, fa, mv)
       IN  Commit(w, Call("SliceExtend", x, y, <<>>, Slots, w))

CallSliceSlice(x, d, i1, i2, step, fa, mv) ==
    /\ fault = "none"
    /\ Live(x)
    /\ d # x
    /\ ~Live(d)
    /\ LET w == SliceSlice(World, x, d, i1, i2, step, fa, mv)
       IN  Commit(w, Call("SliceSlice", x, d, <<>>, {}, w))

CallSliceMap(x, d, elSize, f, fa, mv) ==
    /\ fault = "none"
    /\ Live(x)
    /\ d # x
    /\ ~Live(d)
    /\ LET w == SliceMap(World, x, d, elSize, f, fa, mv)
       IN  Commit(w, Call("SliceMap", x, d, <<>>, {}, w))

CallSliceFilter(x, d, p, fa, mv) ==
    /\ fault = "none"
    /\ Live(x)
    /\ d # x
    /\ ~Live(d)
    /\ LET w == SliceFilter(World, x, d, p, fa, mv)
       IN  Commit(w, Call("SliceFilter", x, d, <<>>, {}, w))

Arrays == UNION {[1 .. n -> Vals] : n \in 0 .. MaxArr}

Init ==
    /\ heap = [b \in BufIds |-> NoBuf]
    /\ slice = [x \in Slots |-> NoSlice]
    /\ fault = "none"
    /\ structLeak = FALSE
    /\ last = [op |-> "none", x |-> NULL, y |-> NULL, args |-> <<>>,
               ret |-> NULL, failed |-> FALSE, cnt |-> 0,
               pre |-> [z \in Slots |-> <<>>]]

\* The inputs that decide how an allocation ends matter only to a call that
\* allocates: one that appends k elements to x grows x when they do not fit.
Grows(x, k) == slice[x].len + k > slice[x].cap
Moves(x, k) == IF Grows(x, k) THEN BOOLEAN ELSE {TRUE}
Fails(x, k) == IF Grows(x, k) THEN 0 .. (IF k < MaxFail THEN k ELSE MaxFail) ELSE {0}

Idx == -MaxSrcLen .. MaxSrcLen
Steps == -MaxStep .. MaxStep

\* One slice under every mutating call, every allocation of which may fail.
Next ==
    \/ \E e \in ElSizes, c \in Caps, fa \in 0 .. 2 :
          CallNewSlice("s", e, c, fa)
    \/ CallDeleteSlice("s")
    \/ \E v \in Vals : \E fa \in Fails("s", 1), mv \in Moves("s", 1) :
          CallSliceAppend("s", v, fa, mv)
    \/ \E a \in Arrays : \E fa \in Fails("s", Len(a)), mv \in Moves("s", Len(a)) :
          CallSliceAppendArray("s", a, fa, mv)
    \/ \E fa \in 0 .. 1 : CallSliceEmpty("s", fa)
    \/ \E fa \in 0 .. MaxFail, mv \in BOOLEAN :
          CallSliceExtend("s", "s", fa, mv)

Spec == Init /\ [][Next]_vars

\* Two slices of one element size built by NewSlice and SliceAppend, and "s"
\* extended by "t".
NextExtend ==
    \/ \E e \in ElSizes, c \in Caps \ {-1} :
          CallNewSlice("s", e, c, 0)
    \/ /\ slice["s"].st = "live"
       /\ CallNewSlice("t", slice["s"].elSize, 0, 0)
    \/ \E x \in Slots, v \in Vals :
          /\ slice[x].len < MaxSrcLen
          /\ CallSliceAppend(x, v, 0, FALSE)
    \/ \E fa \in Fails("s", slice["t"].len), mv \in Moves("s", slice["t"].len) :
          CallSliceExtend("s", "t", fa, mv)

SpecExtend == Init /\ [][NextExtend]_vars

\* A source slice "s" and the slice "t" derived from it by SliceSlice,
\* SliceMap or SliceFilter, which is then mutated or deleted.  The allocations
\* of SliceSlice do not depend on where the copy starts or on its stride:
\* they are made to fail in the calls that copy from index 0 with stride 1.
NextDerive ==
    \/ \E e \in ElSizes :
          CallNewSlice("s", e, 0, 0)
    \/ \E v \in Vals :
          /\ slice["s"].len < MaxSrcLen
          /\ CallSliceAppend("s", v, 0, FALSE)
    \/ \E i1 \in Idx, i2 \in Idx, step \in Steps :
          \E fa \in (IF i1 = 0 /\ step = 1 THEN 0 .. 2 ELSE {0}) :
             CallSliceSlice("s", "t", i1, i2, step, fa, TRUE)
    \/ \E e \in ElSizes, f \in MapFns, fa \in 0 .. 2 :
          CallSliceMap("s", "t", e, f, fa, TRUE)
    \/ \E p \in Preds, fa \in 0 .. MaxFail, mv \in BOOLEAN :
          CallSliceFilter("s", "t", p, fa, mv)
    \/ \E v \in Vals : \E fa \in Fails("t", 1), mv \in Moves("t", 1) :
          /\ slice["t"].len < MaxSrcLen
          /\ CallSliceAppend("t", v, fa, mv)
    \/ \E fa \in 0 .. 1 : CallSliceEmpty("t", fa)
    \/ CallDeleteSlice("t")

SpecDerive == Init /\ [][NextDerive]_vars

\* One slice whose element size makes the growth request exceed 2^32.
NextBytes ==
    \/ \E e \in WideElSizes, c \in Caps : CallNewSlice("s", e, c, 0)
    \/ \E v \in Vals : \E fa \in Fails("s", 1), mv \in Moves("s", 1) :
          CallSliceAppend("s", v, fa, mv)
    \/ \E fa \in 0 .. 1 : CallSliceEmpty("s", fa)

SpecBytes == Init /\ [][NextBytes]_vars

(* ------------------------------ claims -------------------------------- *)

HeadOf(x) == slice[x].head
Elems(x) == Contents(World, x)
Sound == fault = "none"

\* C1: in every state reached by NewSlice, SliceAppend, SliceAppendArray,
\* SliceExtend and SliceEmpty calls, failed allocations included, every slice
\* has 0 <= len <= cap.
C1_LenWithinCap ==
    \A x \in Slots :
        slice[x].st = "live" => 0 <= slice[x].len /\ slice[x].len <= slice[x].cap

\* A SliceAppendArray that appended an element and then failed to grow.
C1_Witness ==
    /\ last.op = "SliceAppendArray"
    /\ last.failed
    /\ last.cnt > 0
    /\ slice["s"].len = slice["s"].cap

\* C2: a successful SliceAppend increases len by exactly 1, SliceGet(s, len-1)
\* then yields the appended value, and every earlier element is still returned
\* unchanged at its index, across growth reallocations.
C2_AppendKeepsElements ==
    (last.op = "SliceAppend" /\ last.ret # NULL /\ Sound) =>
        LET s == slice[last.x]
            before == last.pre[last.x]
        IN  /\ s.len = Len(before) + 1
            /\ SliceGet(s, s.len - 1) # NullPtr
            /\ Load(World, SliceGet(s, s.len - 1), s.elSize) = last.args[1]
            /\ \A i \in 0 .. Len(before) - 1 :
                  /\ SliceGet(s, i) # NullPtr
                  /\ Load(World, SliceGet(s, i), s.elSize) = before[i + 1]

\* The append that grew a slice created with capacity 0 for the second time.
C2_Witness ==
    /\ last.op = "SliceAppend"
    /\ last.ret # NULL
    /\ Sound
    /\ slice["s"].cap = 6
    /\ slice["s"].len = 3
    /\ Elems("s")[1] # Elems("s")[2]

\* C3: SliceGet(s, i) succeeds exactly when -len <= i < len, then refers to
\* element i (i >= 0) or len + i (i < 0), so that SliceGet(s, i) and
\* SliceGet(s, i - len) are the same element for i in [0, len); for every
\* other i, i = len and i = -len-1 among them, it returns NULL.
C3_GetResolvesIndex ==
    \A x \in Slots :
        slice[x].st = "live" =>
            LET s == slice[x]
            IN  /\ \A i \in -(s.len + 2) .. (s.len + 2) :
                      IF -s.len <= i /\ i < s.len
                      THEN SliceGet(s, i) =
                               [kind |-> "heap", buf |-> s.head,
                                off |-> (IF i >= 0 THEN i ELSE s.len + i) * s.elSize]
                      ELSE SliceGet(s, i) = NullPtr
                /\ \A i \in 0 .. s.len - 1 : SliceGet(s, i) = SliceGet(s, i - s.len)
                /\ SliceGet(s, s.len) = NullPtr
                /\ SliceGet(s, -s.len - 1) = NullPtr

\* A slice of three elements, so that 0, 1, 2, -1, -2, -3 all resolve.
C3_Witness ==
    /\ slice["s"].st = "live"
    /\ slice["s"].len = 3
    /\ slice["s"].elSize = 4
    /\ Sound

\* What SliceSlice(s, 0, len, 1) returns in the current state.
FullCopy == SliceSlice(World, "s", "t", 0, slice["s"].len, 1, 0, TRUE)

CanDerive == slice["s"].st = "live" /\ slice["t"].st = "none" /\ Sound

\* The result is an equal copy in a buffer of its own, the source untouched.
IsCopy(w) ==
    /\ w.ret = "t"
    /\ Contents(w, "t") = Elems("s")
    /\ w.slice["t"].head # w.slice["s"].head
    /\ w.slice["s"] = slice["s"]
    /\ Contents(w, "s") = Elems("s")

\* Appending to or clearing t has left the elements of s as they were.
CopyIsApart ==
    (last.op \in {"SliceAppend", "SliceEmpty"} /\ last.x = "t"
        /\ slice["s"].st = "live" /\ Sound) =>
        /\ Elems("s") = last.pre["s"]
        /\ slice["t"].st = "live" => HeadOf("t") # HeadOf("s")

\* C4 as stated: for every slice, of length 0 too, SliceSlice(s, 0, len, 1)
\* yields an equal copy that is a distinct instance.
C4_FullCopyAnyLength ==
    /\ CanDerive => IsCopy(FullCopy)
    /\ CopyIsApart

\* C4 as amended: for every non-empty slice SliceSlice(s, 0, len, 1) yields an
\* equal copy that is a distinct instance, appending to or clearing which
\* never changes s; for an empty slice it returns NULL.
C4_FullCopyNonEmpty ==
    /\ CanDerive =>
          IF slice["s"].len = 0 THEN FullCopy.ret = NULL /\ FullCopy.slice = slice
          ELSE IsCopy(FullCopy)
    /\ CopyIsApart

\* The copy of a two-element slice has been appended to, which grew it.
C4_Witness ==
    /\ last.op = "SliceAppend"
    /\ last.x = "t"
    /\ last.ret # NULL
    /\ Sound
    /\ Len(Elems("s")) = 2
    /\ Elems("s")[1] # Elems("s")[2]
    /\ last.pre["t"] = Elems("s")
    /\ slice["t"].cap = 6

\* C5: for distinct slices a and b of one element size, a successful
\* SliceExtend(a, b) leaves a.len = old a.len + b.len, the old elements of a
\* unchanged, the last b.len elements of a equal to b in order, b unchanged.
C5_ExtendAppendsSource ==
    (last.op = "SliceExtend" /\ last.x # last.y /\ last.ret # NULL /\ Sound) =>
        /\ slice[last.x].len = Len(last.pre[last.x]) + Len(last.pre[last.y])
        /\ Elems(last.x) = last.pre[last.x] \o last.pre[last.y]
        /\ Elems(last.y) = last.pre[last.y]
        /\ slice[last.y].len = Len(last.pre[last.y])

\* An extend by two different elements that had to grow the target.
C5_Witness ==
    /\ last.op = "SliceExtend"
    /\ last.ret = "s"
    /\ Sound
    /\ Len(last.pre["s"]) = 2
    /\ Len(last.pre["t"]) = 2
    /\ last.pre["t"][1] # last.pre["t"][2]
    /\ slice["s"].cap = 6

\* C6: every buffer a slice has owned is freed exactly once: none is freed
\* twice, and none is left allocated once the slices are deleted.
C6_BuffersFreedOnce ==
    /\ fault # "double_free"
    /\ (\A x \in Slots : slice[x].st = "none") =>
          \A b \in BufIds : heap[b].st # "live"

\* C7: an operation in which an allocation fails returns NULL, and no
\* operation dereferences a NULL slice.
C7_FailureIsReturned ==
    /\ fault # "null_deref"
    /\ last.failed => last.ret = NULL

\* The elements SliceSlice is to return for the normalised range [a, e).
Strided(c, a, e, step) ==
    LET m == IF step > 0 THEN step ELSE -step
        n == (e - a + m - 1) \div m
    IN  [k \in 1 .. n |->
            IF step > 0 THEN c[a + (k - 1) * m + 1] ELSE c[e - (k - 1) * m]]

Reverse(c) == [k \in 1 .. Len(c) |-> c[Len(c) + 1 - k]]

\* C8: for a non-empty slice, start in [-len, len), end in [-len, len] and
\* step # 0, with start' = start (+ len if negative) and end' = end (+ len + 1
\* if negative): SliceSlice fails when start' >= end', and otherwise returns
\* the elements at start', start'+step, ... < end' (step > 0) or at end'-1,
\* end'-1-|step|, ... >= start' (step < 0); SliceSlice(s, 0, len, -1) is s
\* reversed.
C8_StridedCopy ==
    (CanDerive /\ slice["s"].len > 0) =>
        LET n == slice["s"].len
        IN  /\ \A i1 \in -n .. n - 1, i2 \in -n .. n, step \in Steps \ {0} :
                  LET a == IF i1 < 0 THEN i1 + n ELSE i1
                      e == IF i2 < 0 THEN i2 + n + 1 ELSE i2
                      w == SliceSlice(World, "s", "t", i1, i2, step, 0, TRUE)
                  IN  IF a >= e THEN w.ret = NULL /\ w.slice = slice
                      ELSE /\ w.ret = "t"
                           /\ Contents(w, "t") = Strided(Elems("s"), a, e, step)
                           /\ w.fault = "none"
            /\ Contents(SliceSlice(World, "s", "t", 0, n, -1, 0, TRUE), "t")
                   = Reverse(Elems("s"))

\* SliceSlice has returned a three-element slice in reverse.
C8_Witness ==
    /\ last.op = "SliceSlice"
    /\ last.ret = "t"
    /\ Sound
    /\ Len(Elems("s")) = 3
    /\ Elems("s")[1] # Elems("s")[3]
    /\ Elems("t") = Reverse(Elems("s"))

\* C9: the buffer of a slice holds at least cap * elSize bytes, so that the
\* element SliceAppend writes lies inside the allocation.
C9_BufferHoldsCapacity ==
    /\ fault # "heap_overflow"
    /\ \A x \in Slots :
          (slice[x].st = "live" /\ heap[HeadOf(x)].st = "live") =>
              heap[HeadOf(x)].size >= slice[x].cap * slice[x].elSize

\* C10: SliceExtend(s1, s2) ends having performed at most, and unless an
\* allocation fails exactly, as many appends as s2 had elements when it was
\* called, also when s1 and s2 are the same slice.
C10_ExtendAppendsSourceLength ==
    last.op = "SliceExtend" =>
        /\ last.cnt <= Len(last.pre[last.y])
        /\ (~last.failed /\ Sound) =>
              last.ret # NULL /\ last.cnt = Len(last.pre[last.y])

====
